---- MODULE Spec2Model ----
(***************************************************************************)
(* Kernel_OS memory subsystem: the buddy-system frame allocator            *)
(* (src/src/allocator/buddy_system/frame.rs) driven by its callers and by  *)
(* the tests of src/src/main.rs.                                           *)
(*                                                                         *)
(* Frame numbers and counters are usize.  The source keeps 32 free lists   *)
(* ([BTreeSet<usize>; 32]); a block of the highest order then starts at    *)
(* frame 2^31, which TLC's integers cannot hold, so the number of lists is *)
(* the definition ORDER, scaled down.  The literal 32 that add_frame uses  *)
(* as the low bit of frame 0 is kept as written (ZeroLowBit), so that, as  *)
(* in the source, it is smaller than the largest block 2^(ORDER-1).        *)
(***************************************************************************)
EXTENDS Integers, FiniteSets, Sequences, TLC

\* Number of free lists, self.free_list.len() (32 in the source, scaled).
ORDER == 7
\* Live allocations the callers hold at one time.
MaxLive == 2

\* frame.rs:38, the low bit add_frame takes for current_start == 0.
ZeroLowBit == 32

\* Option::None of alloc's result.
None == -1

\* Frame numbers handed to add_frame are below this.
FrameLimit == 2 ^ ORDER
\* Range boundaries the callers feed (main.rs:207 feeds 0..3).
FeedPoints == {0, 3, 2 * ZeroLowBit, FrameLimit}
\* Ranges handed to add_frame: those between two boundaries, and one empty.
FeedRanges == {r \in FeedPoints \X FeedPoints : r[1] < r[2]} \cup {<<3, 3>>}
\* Ranges handed to insert (main.rs:207).
InsertRanges == {<<0, 3>>}
\* Counts the callers request: 1 and 2 (main.rs:208-213), one that is no
\* power of two, and one of size class ORDER.
AllocCounts == {1, 2, ZeroLowBit - 8, 2 ^ (ORDER - 1) + 1}

\* Ranges handed to add_frame on its own: every range inside 0 .. 12, the
\* ranges from frame 0 over one and two blocks of ZeroLowBit frames, and
\* ranges that reach frame numbers with a low bit of 1 << ORDER.
WideRanges ==
  {r \in (0 .. 12) \X (0 .. 12) : r[1] <= r[2]}
    \cup {<<0, 2 * ZeroLowBit>>, <<0, FrameLimit>>, <<2 * ZeroLowBit, FrameLimit>>,
          <<FrameLimit, 2 * FrameLimit>>, <<FrameLimit - 1, 2 * FrameLimit>>,
          <<FrameLimit, FrameLimit + 1>>, <<3 * ZeroLowBit, 2 * FrameLimit - 3>>}
\* Ranges fed before the callers stop feeding.
MaxFeeds == 2

\* Counts of the callers that ask for no frame, next to 1 and 2.
ZeroCounts == {0, 1, 2}

VARIABLES
  free_list,   \* FrameAllocator.free_list: order -> set of first frames
  allocated,   \* FrameAllocator.allocated
  total,       \* FrameAllocator.total
  panicked,    \* the kernel panicked (index out of bounds, overflow check)
  live,        \* allocations the callers hold: [frame, count]
  fed,         \* the non-empty ranges <<start, end>> handed to add_frame
  last,        \* the last call: [op, a, b, ret]
  h_free_list, \* Heap.free_list: order -> list of block addresses, head first
  h_user,      \* Heap.user
  h_allocated, \* Heap.allocated
  h_total,     \* Heap.total
  h_live,      \* heap allocations the caller holds: [ptr, size, align]
  h_last,      \* the last heap call: [op, size, align, ret]
  l_list,      \* the linked-list allocator's free list after head: [addr, size], first node first
  l_live,      \* its allocations the caller holds: [ptr, size, align] (the layout asked for)
  l_heap,      \* the regions init was given: [addr, size]
  l_panicked,  \* an assertion of add_free_region failed
  l_last,      \* its last call: [op, ptr, size, align, new_size, ret]
  k_list,      \* the free list of the Locked<Allocator> the contexts share
  k_heap,      \* the regions its init was given
  k_lock,      \* the context that holds the spin mutex, NoContext if free
  k_pc,        \* context -> where it is in alloc or dealloc
  k_arg,       \* context -> the layout (and pointer) of its call
  k_found,     \* context -> what find_region returned to it
  k_ret,       \* context -> the result of its last alloc
  k_live,      \* context -> the allocation it holds, as a set
  k_irq,       \* the thread an interrupt handler runs on top of, NoContext if none
  k_seq,       \* the free list had every call run alone at its lock()
  k_exp,       \* context -> the result of its last alloc, had it run alone
  k_re         \* context -> the allocation its realloc is moving, or no_arg

\* The frame allocator and its callers.
fvars == <<free_list, allocated, total, panicked, live, fed, last>>
\* The byte heap and its callers.
hvars == <<h_free_list, h_user, h_allocated, h_total, h_live, h_last>>
\* The linked-list allocator and its callers.
lvars == <<l_list, l_live, l_heap, l_panicked, l_last>>
\* The locked linked-list allocator and the contexts that call it.
kvars == <<k_list, k_heap, k_lock, k_pc, k_arg, k_found, k_ret, k_live, k_irq,
           k_seq, k_exp, k_re>>
vars == <<fvars, hvars, lvars, kvars>>

----------------------------------------------------------------------------
\* usize helpers

Min2(a, b) == IF a <= b THEN a ELSE b

\* BTreeSet::iter().next_back(): the largest element.
first_back(S) == CHOOSE x \in S : \A y \in S : y <= x

\* BTreeSet::iter().next(): the smallest element.
first(S) == CHOOSE x \in S : \A y \in S : x <= y

RECURSIVE next_power_of_two(_)
\* usize::next_power_of_two: smallest power of two >= n (1 for n = 0).
next_power_of_two(n) == IF n <= 1 THEN 1 ELSE 2 * next_power_of_two((n + 1) \div 2)

RECURSIVE prev_power_of_two(_)
\* buddy_manager::prev_power_of_two: largest power of two <= n, n >= 1.
prev_power_of_two(n) == IF n <= 1 THEN 1 ELSE 2 * prev_power_of_two(n \div 2)

RECURSIVE trailing_zeros(_)
\* usize::trailing_zeros of n > 0.
trailing_zeros(n) == IF n % 2 = 1 THEN 0 ELSE 1 + trailing_zeros(n \div 2)

RECURSIVE low_bit_of(_)
\* current_start & (!current_start + 1): the lowest set bit of n > 0.
low_bit_of(n) == IF n % 2 = 1 THEN 1 ELSE 2 * low_bit_of(n \div 2)

\* current_ptr ^ (1 << current_class)
buddy(current_ptr, current_class) ==
  IF (current_ptr \div (2 ^ current_class)) % 2 = 1
    THEN current_ptr - 2 ^ current_class
    ELSE current_ptr + 2 ^ current_class

----------------------------------------------------------------------------
\* FrameAllocator::new

new == [free_list |-> [k \in 0 .. ORDER - 1 |-> {}], allocated |-> 0, total |-> 0]

\* The allocator as the current state holds it.
self == [free_list |-> free_list, allocated |-> allocated, total |-> total]

----------------------------------------------------------------------------
\* FrameAllocator::add_frame

\* block_size without the alignment of current_start.
block_size_unaligned(current_start, end) == prev_power_of_two(end - current_start)

\* The size of the block add_frame cuts at current_start.
block_size(current_start, end) ==
  LET low_bit == IF current_start > 0 THEN low_bit_of(current_start) ELSE ZeroLowBit
  IN Min2(low_bit, prev_power_of_two(end - current_start))

\* self.total = total
add_total_overwrite(self_total, added) == added

\* self.total += total
add_total(self_total, added) == self_total + added

RECURSIVE add_frame_loop(_, _, _, _)
\* The while loop: [free_list, total (the local), panicked].  Indexing
\* free_list at or beyond its length panics.
add_frame_loop(fl, tot, current_start, end) ==
  IF ~(current_start < end)
    THEN [free_list |-> fl, total |-> tot, panicked |-> FALSE]
    ELSE LET size == block_size(current_start, end)
             idx == trailing_zeros(size)
         IN IF idx >= ORDER
              THEN [free_list |-> fl, total |-> tot, panicked |-> TRUE]
              ELSE add_frame_loop([fl EXCEPT ![idx] = @ \cup {current_start}],
                                  tot + size, current_start + size, end)

\* add_frame on allocator s: [st, panicked]
add_frame(s, start, end) ==
  LET r == add_frame_loop(s.free_list, 0, start, end)
  IN [st |-> [s EXCEPT !.free_list = r.free_list,
                       !.total = IF r.panicked THEN @ ELSE add_total(@, r.total)],
      panicked |-> r.panicked]

\* insert(range) forwards to add_frame.
insert(s, start, end) == add_frame(s, start, end)

----------------------------------------------------------------------------
\* FrameAllocator::alloc

\* block + (1 << j)
split_upper_whole(block, j) == block + 2 ^ j

\* The upper half of block, split at order j.
split_upper(block, j) == block + 2 ^ (j - 1)

\* class + 1..self.free_list.len()
scan_orders_above(class) == class + 1 .. ORDER - 1

\* The orders alloc scans, in increasing order: class..self.free_list.len()
scan_orders(class) == class .. ORDER - 1

\* self.allocated += count
alloc_count_unrounded(self_allocated, size, count) == self_allocated + count

\* self.allocated += size
alloc_count(self_allocated, size, count) == self_allocated + size

\* The split loop without the two inserts into free_list[j - 1].
alloc_split_drop(fl, j, class) ==
  IF j <= class
    THEN [ok |-> TRUE, free_list |-> fl]
    ELSE [ok |-> TRUE, free_list |-> [fl EXCEPT ![j] = @ \ {first(fl[j])}]]

RECURSIVE alloc_split(_, _, _)
\* The split loop, j from i down to class + 1: [ok, free_list]
alloc_split(fl, j, class) ==
  IF j <= class
    THEN [ok |-> TRUE, free_list |-> fl]
    ELSE IF fl[j] = {}
      THEN [ok |-> FALSE, free_list |-> fl]
      ELSE LET block == first(fl[j])
               fl1 == [fl EXCEPT ![j - 1] = (@ \cup {split_upper(block, j)}) \cup {block}]
           IN alloc_split([fl1 EXCEPT ![j] = @ \ {block}], j - 1, class)

\* alloc_take without self.free_list[class].remove(&result)
alloc_take_keep(s, fl, class, size, count) ==
  IF fl[class] = {}
    THEN [ret |-> None, st |-> [s EXCEPT !.free_list = fl]]
    ELSE [ret |-> CHOOSE x \in fl[class] : \A y \in fl[class] : x <= y,
          st |-> [s EXCEPT !.free_list = fl, !.allocated = @ + size]]

\* Taking the result from list class: [ret, st]
alloc_take(s, fl, class, size, count) ==
  IF fl[class] = {}
    THEN [ret |-> None, st |-> [s EXCEPT !.free_list = fl]]
    ELSE LET result == first(fl[class])
         IN [ret |-> result,
             st |-> [s EXCEPT !.free_list = [fl EXCEPT ![class] = @ \ {result}],
                              !.allocated = alloc_count(@, size, count)]]

\* for i in class..self.free_list.len(): the first order with a block.
first_nonempty(nonempty) == CHOOSE i \in nonempty : \A k \in nonempty : i <= k

\* alloc on allocator s: [ret, st]
alloc(s, count) ==
  LET size == next_power_of_two(count)
      class == trailing_zeros(size)
      nonempty == {i \in scan_orders(class) : s.free_list[i] # {}}
  IN IF nonempty = {}
       THEN [ret |-> None, st |-> s]
       ELSE LET i == first_nonempty(nonempty)
                sp == alloc_split(s.free_list, i, class)
            IN IF sp.ok
                 THEN alloc_take(s, sp.free_list, class, size, count)
                 ELSE [ret |-> None, st |-> [s EXCEPT !.free_list = sp.free_list]]

\* The return statement alloc(count) leaves by on allocator s: the None
\* after the scan, the None of the split loop, the None of the empty target
\* list, or Some.
alloc_branch(s, count) ==
  LET size == next_power_of_two(count)
      class == trailing_zeros(size)
      nonempty == {i \in scan_orders(class) : s.free_list[i] # {}}
  IN IF nonempty = {}
       THEN "scan_none"
       ELSE LET sp == alloc_split(s.free_list, first_nonempty(nonempty), class)
            IN IF ~sp.ok THEN "split_none"
               ELSE IF sp.free_list[class] = {} THEN "take_none"
               ELSE "some"

----------------------------------------------------------------------------
\* FrameAllocator::dealloc

\* dealloc without the merge: the block goes back on its own list.
dealloc_merge_never(fl, current_ptr, current_class) ==
  IF ~(current_class < ORDER)
    THEN fl
    ELSE [fl EXCEPT ![current_class] = @ \cup {current_ptr}]

RECURSIVE dealloc_merge(_, _, _)
\* The merge loop from (current_ptr, current_class): the free lists after it.
dealloc_merge(fl, current_ptr, current_class) ==
  IF ~(current_class < ORDER)
    THEN fl
    ELSE LET b == buddy(current_ptr, current_class)
         IN IF b \in fl[current_class]
              THEN dealloc_merge([fl EXCEPT ![current_class] = @ \ {b}],
                                 Min2(current_ptr, b), current_class + 1)
              ELSE [fl EXCEPT ![current_class] = @ \cup {current_ptr}]

\* dealloc with self.allocated -= count
dealloc_by_count(s, frame, count) ==
  [st |-> [s EXCEPT !.free_list = dealloc_merge(@, frame,
                                    trailing_zeros(next_power_of_two(count))),
                    !.allocated = IF @ >= count THEN @ - count ELSE @],
   panicked |-> s.allocated < count]

\* dealloc on allocator s: [st, panicked].  self.allocated -= size panics
\* on underflow (overflow checks on); the store is then not made.
dealloc(s, frame, count) ==
  LET size == next_power_of_two(count)
      class == trailing_zeros(size)
      fl == dealloc_merge(s.free_list, frame, class)
  IN [st |-> [s EXCEPT !.free_list = fl,
                       !.allocated = IF @ >= size THEN @ - size ELSE @],
      panicked |-> s.allocated < size]

----------------------------------------------------------------------------
(***************************************************************************)
(* The buddy byte heap (buddy_manager::Heap), whose source is not among    *)
(* the files: add_to_heap, alloc and dealloc follow the design document    *)
(* (feeding, allocation, deallocation of the byte heap), its free lists    *)
(* are the intrusive lists (push and pop at the head), and the calls are   *)
(* those of the tests of main.rs.                                          *)
(***************************************************************************)

\* size_of::<usize>(), the pointer size (main.rs:166).
WordSize == 8
\* let space: [usize; 100] (main.rs:160).
SpaceWords == 100
\* Number of free lists of the heap.
HeapOrder == 32
\* The region lies at word MaxStartWord of the address space at most.
MaxStartWord == 66
\* Heap allocations the caller holds at one time.
MaxHeapLive == 2

RECURSIVE floor_log2(_)
\* floor(log2(n)), n >= 1
floor_log2(n) == IF n <= 1 THEN 0 ELSE 1 + floor_log2(n \div 2)

Max2(a, b) == IF a >= b THEN a ELSE b

\* Heap::new / Heap::empty
heap_new == [free_list |-> [k \in 0 .. HeapOrder - 1 |-> << >>],
             user |-> 0, allocated |-> 0, total |-> 0]

\* The heap as the current state holds it.
heap_self == [free_list |-> h_free_list, user |-> h_user,
              allocated |-> h_allocated, total |-> h_total]

\* The order of the block add_to_heap cuts at start.
region_order(start, end) ==
  Min2(IF start > 0 THEN trailing_zeros(start) ELSE HeapOrder - 1,
       floor_log2(end - start))

RECURSIVE add_to_heap_loop(_, _, _, _)
\* While start < end: push start onto the list of its order, advance.
add_to_heap_loop(fl, tot, start, end) ==
  IF ~(start < end)
    THEN [free_list |-> fl, total |-> tot]
    ELSE LET k == region_order(start, end)
         IN add_to_heap_loop([fl EXCEPT ![k] = <<start>> \o @],
                             tot + 2 ^ k, start + 2 ^ k, end)

\* add_to_heap(start, end): start aligned up and end down to the pointer
\* alignment, the region cut into blocks, total raised by the bytes admitted.
add_to_heap(h, start, end) ==
  LET s == ((start + WordSize - 1) \div WordSize) * WordSize
      e == (end \div WordSize) * WordSize
      r == add_to_heap_loop(h.free_list, 0, s, e)
  IN [h EXCEPT !.free_list = r.free_list, !.total = @ + r.total]

\* required = max(size.next_power_of_two(), align, sizeof(pointer))
heap_required(size, align) == Max2(next_power_of_two(size), Max2(align, WordSize))

\* The orders above which no list is scanned: k0 .. ORDER-1, all of them.
heap_scan_all(k0) == 0 .. HeapOrder - 1

\* The orders alloc scans for a block: k0 .. ORDER-1.
heap_scan_orders(k0) == k0 .. HeapOrder - 1

RECURSIVE heap_split(_, _, _)
\* With block B popped from list j: while j > k0 push B + (1 << (j-1)) and
\* then B onto list j-1, and pop again from list j-1.  [block, free_list]
heap_split(fl, j, k0) ==
  LET B == Head(fl[j])
      popped == [fl EXCEPT ![j] = Tail(@)]
  IN IF j <= k0
       THEN [block |-> B, free_list |-> popped]
       ELSE heap_split([popped EXCEPT ![j - 1] = <<B, B + 2 ^ (j - 1)>> \o @],
                       j - 1, k0)

\* alloc(layout): [ret, st]; ret is None on out-of-memory.
heap_alloc(h, size, align) ==
  LET required == heap_required(size, align)
      k0 == trailing_zeros(required)
      nonempty == {k \in heap_scan_orders(k0) : h.free_list[k] # << >>}
  IN IF nonempty = {}
       THEN [ret |-> None, st |-> h]
       ELSE LET j == CHOOSE k \in nonempty : \A i \in nonempty : k <= i
                sp == heap_split(h.free_list, j, k0)
            IN [ret |-> sp.block,
                st |-> [h EXCEPT !.free_list = sp.free_list,
                                 !.user = @ + size,
                                 !.allocated = @ + required]]

\* list.remove(addr): the list without addr.
list_remove(list, addr) ==
  LET keep == {i \in 1 .. Len(list) : list[i] # addr}
      F[i \in 0 .. Len(list)] ==
        IF i = 0 THEN << >>
        ELSE IF i \in keep THEN Append(F[i - 1], list[i]) ELSE F[i - 1]
  IN F[Len(list)]

\* addr is on the list.
list_has(list, addr) == \E i \in 1 .. Len(list) : list[i] = addr

RECURSIVE heap_merge(_, _, _)
\* From block B at order k: while the buddy is on list k remove it and go
\* up with min(B, C); otherwise push B onto list k and stop.
heap_merge(fl, B, k) ==
  IF ~(k < HeapOrder)
    THEN fl
    ELSE LET C == buddy(B, k)
         IN IF list_has(fl[k], C)
              THEN heap_merge([fl EXCEPT ![k] = list_remove(@, C)], Min2(B, C), k + 1)
              ELSE [fl EXCEPT ![k] = <<B>> \o @]

\* dealloc(ptr, layout) that lowers allocated by the size asked for.
heap_dealloc_by_size(h, ptr, size, align) ==
  [h EXCEPT !.free_list = heap_merge(@, ptr, trailing_zeros(heap_required(size, align))),
            !.user = @ - size,
            !.allocated = @ - size]

\* dealloc(ptr, layout)
heap_dealloc(h, ptr, size, align) ==
  LET required == heap_required(size, align)
      k0 == trailing_zeros(required)
  IN [h EXCEPT !.free_list = heap_merge(@, ptr, k0),
               !.user = @ - size,
               !.allocated = @ - required]

\* Layout::from_size_align(size, align): the requests of the tests, {1, 1}
\* (main.rs:168) and {100 * size_of::<usize>(), 1} (main.rs:166), and
\* requests between the two, with and without an alignment above the size.
Layouts == {[size |-> 1, align |-> 1], [size |-> 1, align |-> 2 * WordSize],
            [size |-> 200, align |-> 1], [size |-> SpaceWords * WordSize, align |-> 1]}

HeapInit ==
  /\ h_free_list = heap_new.free_list
  /\ h_user = heap_new.user
  /\ h_allocated = heap_new.allocated
  /\ h_total = heap_new.total
  /\ h_live = {}
  /\ h_last = [op |-> "new", size |-> 0, align |-> 0, ret |-> None]

HeapStore(st) ==
  /\ h_free_list' = st.free_list
  /\ h_user' = st.user
  /\ h_allocated' = st.allocated
  /\ h_total' = st.total

\* heap.add_to_heap(space.as_ptr() as usize, space.as_ptr().add(100) as usize)
\* with the array at word w of the address space; the one region fed.
HeapAddSpace(w) ==
  /\ h_total = 0
  /\ HeapStore(add_to_heap(heap_self, w * WordSize, (w + SpaceWords) * WordSize))
  /\ h_last' = [op |-> "add_to_heap", size |-> w * WordSize, align |-> 0, ret |-> None]
  /\ UNCHANGED <<h_live, fvars, lvars, kvars>>

\* heap.alloc(layout)
HeapAlloc(layout) ==
  /\ LET r == heap_alloc(heap_self, layout.size, layout.align)
     IN /\ (r.ret # None => Cardinality(h_live) < MaxHeapLive)
        /\ HeapStore(r.st)
        /\ h_live' = IF r.ret = None THEN h_live
                     ELSE h_live \cup {[ptr |-> r.ret, size |-> layout.size,
                                        align |-> layout.align]}
        /\ h_last' = [op |-> "alloc", size |-> layout.size, align |-> layout.align,
                      ret |-> r.ret]
  /\ UNCHANGED <<fvars, lvars, kvars>>

\* heap.dealloc(ptr, layout) of a live allocation
HeapDealloc(a) ==
  /\ a \in h_live
  /\ HeapStore(heap_dealloc(heap_self, a.ptr, a.size, a.align))
  /\ h_live' = h_live \ {a}
  /\ h_last' = [op |-> "dealloc", size |-> a.size, align |-> a.align, ret |-> a.ptr]
  /\ UNCHANGED <<fvars, lvars, kvars>>

\* let addr = heap.alloc(layout).unwrap(); heap.dealloc(addr, layout);
\* one iteration of the loop of test_heap_alloc_and_free.  A failing alloc
\* ends the iteration at the unwrap, the heap as alloc left it.
HeapAllocFree(layout) ==
  /\ LET r == heap_alloc(heap_self, layout.size, layout.align)
     IN /\ HeapStore(IF r.ret = None THEN r.st
                     ELSE heap_dealloc(r.st, r.ret, layout.size, layout.align))
        /\ h_last' = [op |-> "alloc_free", size |-> layout.size,
                      align |-> layout.align, ret |-> r.ret]
  /\ UNCHANGED <<h_live, fvars, lvars, kvars>>

HeapNext ==
  \/ \E w \in 1 .. MaxStartWord : HeapAddSpace(w)
  \/ \E layout \in Layouts : HeapAlloc(layout)
  \/ \E a \in h_live : HeapDealloc(a)
  \/ \E layout \in Layouts : HeapAllocFree(layout)

----------------------------------------------------------------------------
(***************************************************************************)
(* The linked-list allocator (allocator/list.rs).  The free list is the    *)
(* chain of nodes after the sentinel head; a node {size, next} stored at   *)
(* address addr is the record [addr, size], and the chain a sequence.      *)
(***************************************************************************)

\* mem::size_of::<Node>(): a usize and an Option<&'static mut Node>.
NodeSize == 16
\* mem::align_of::<Node>()
NodeAlign == 8
\* ptr::null_mut()
Null == 0
\* Allocations of the linked-list allocator the caller holds at one time.
MaxListLive == 2
\* heap_size given to init.
ListHeapSize == 64

\* align_up that leaves the address where it is.
align_up_none(addr, align) == addr

\* align_up(addr, align) of allocator/alloc.rs, align a power of two.
align_up(addr, align) == ((addr + align - 1) \div align) * align

\* Node::end_address
end_address(region) == region.addr + region.size

\* Allocator::new: head.next = None
list_new == << >>

\* The two assertions of add_free_region.
add_free_region_ok(addr, size) ==
  /\ align_up(addr, NodeAlign) = addr
  /\ size >= NodeSize

\* add_free_region that appends the node at the end of the chain.
add_free_region_back(list, addr, size) == list \o <<[addr |-> addr, size |-> size]>>

\* add_free_region: the node written at addr becomes head.next.
add_free_region(list, addr, size) == <<[addr |-> addr, size |-> size]>> \o list

\* Allocator::init
init(list, heap_start, heap_size) == add_free_region(list, heap_start, heap_size)

\* An excess test that lets every remainder pass.
excess_fits_any(excess_size) == TRUE

\* The excess test of alloc_from_region.
excess_fits(excess_size) == ~(excess_size > 0 /\ excess_size < NodeSize)

\* alloc_from_region: Ok(alloc_start) as the address, Err(()) as None.
alloc_from_region(region, size, align) ==
  LET alloc_start == align_up(region.addr, align)
      alloc_end == alloc_start + size
  IN IF alloc_end > end_address(region) THEN None
     ELSE IF ~excess_fits(end_address(region) - alloc_end) THEN None
     ELSE alloc_start

\* The nodes find_region accepts, by position in the chain.
fitting(list, size, align) ==
  {i \in 1 .. Len(list) : alloc_from_region(list[i], size, align) # None}

\* A walk that stops at the last fitting node.
find_position_last(fit) == CHOOSE i \in fit : \A j \in fit : i >= j

\* The position find_region stops at: the first fitting node from the head.
find_position(fit) == CHOOSE i \in fit : \A j \in fit : i <= j

\* find_region: [found, region, alloc_start, list]; the node is unlinked.
find_region(list, size, align) ==
  LET fit == fitting(list, size, align)
  IN IF fit = {}
       THEN [found |-> FALSE, region |-> [addr |-> 0, size |-> 0],
             alloc_start |-> Null, list |-> list]
       ELSE LET i == find_position(fit)
            IN [found |-> TRUE, region |-> list[i],
                alloc_start |-> alloc_from_region(list[i], size, align),
                list |-> SubSeq(list, 1, i - 1) \o SubSeq(list, i + 1, Len(list))]

\* size_align that hands the size on as asked for.
size_align_raw(layout) ==
  <<layout.size, IF layout.align >= NodeAlign THEN layout.align ELSE NodeAlign>>

\* Allocator::size_align: <<size, align>>
size_align(layout) ==
  LET align == IF layout.align >= NodeAlign THEN layout.align ELSE NodeAlign
      padded == ((layout.size + align - 1) \div align) * align
  IN <<IF padded >= NodeSize THEN padded ELSE NodeSize, align>>

\* GlobalAlloc::alloc: [ret, list, panicked]
list_alloc(list, layout) ==
  LET sa == size_align(layout)
      f == find_region(list, sa[1], sa[2])
  IN IF ~f.found
       THEN [ret |-> Null, list |-> f.list, panicked |-> FALSE]
       ELSE LET alloc_end == f.alloc_start + sa[1]
                excess_size == end_address(f.region) - alloc_end
            IN IF excess_size > 0
                 THEN IF add_free_region_ok(alloc_end, excess_size)
                        THEN [ret |-> f.alloc_start,
                              list |-> add_free_region(f.list, alloc_end, excess_size),
                              panicked |-> FALSE]
                        ELSE [ret |-> Null, list |-> f.list, panicked |-> TRUE]
                 ELSE [ret |-> f.alloc_start, list |-> f.list, panicked |-> FALSE]

\* GlobalAlloc::dealloc: [list, panicked]
list_dealloc(list, ptr, layout) ==
  LET sa == size_align(layout)
  IN IF add_free_region_ok(ptr, sa[1])
       THEN [list |-> add_free_region(list, ptr, sa[1]), panicked |-> FALSE]
       ELSE [list |-> list, panicked |-> TRUE]

\* realloc that frees the old block whether or not the new one was found.
list_realloc_always_free(list, ptr, layout, new_size) ==
  LET a == list_alloc(list, [size |-> new_size, align |-> layout.align])
      d == list_dealloc(a.list, ptr, layout)
  IN [ret |-> a.ret, list |-> d.list, panicked |-> a.panicked \/ d.panicked]

\* GlobalAlloc::realloc: [ret, list, panicked]
list_realloc(list, ptr, layout, new_size) ==
  LET new_layout == [size |-> new_size, align |-> layout.align]
      a == list_alloc(list, new_layout)
  IN IF a.ret # Null /\ ~a.panicked
       THEN LET d == list_dealloc(a.list, ptr, layout)
            IN [ret |-> a.ret, list |-> d.list, panicked |-> d.panicked]
       ELSE a

\* The layouts asked for, and the sizes realloc asks for.
ListSizes == {1, 24, 40}
ListLayouts == [size : ListSizes, align : {1, 16}]
\* The start addresses init is given; 12 is not aligned to a node.
ListHeapStarts == {8, 12, 32}

ListInit ==
  /\ l_list = list_new
  /\ l_live = {}
  /\ l_heap = {}
  /\ l_panicked = FALSE
  /\ l_last = [op |-> "new", ptr |-> Null, size |-> 0, align |-> 0,
               new_size |-> 0, ret |-> Null]

\* allocator.init(heap_start, heap_size), once
ListHeapInit(heap_start, heap_size) ==
  /\ ~l_panicked
  /\ l_heap = {}
  /\ IF add_free_region_ok(heap_start, heap_size)
       THEN /\ l_list' = init(l_list, heap_start, heap_size)
            /\ l_heap' = {[addr |-> heap_start, size |-> heap_size]}
            /\ l_panicked' = FALSE
       ELSE /\ l_panicked' = TRUE
            /\ UNCHANGED <<l_list, l_heap>>
  /\ l_last' = [op |-> "init", ptr |-> heap_start, size |-> heap_size, align |-> 0,
                new_size |-> 0, ret |-> Null]
  /\ UNCHANGED <<l_live, fvars, hvars, kvars>>

\* alloc(layout)
ListAlloc(layout) ==
  /\ ~l_panicked
  /\ LET r == list_alloc(l_list, layout)
     IN /\ (r.ret # Null => Cardinality(l_live) < MaxListLive)
        /\ l_list' = r.list
        /\ l_panicked' = r.panicked
        /\ l_live' = IF r.ret = Null THEN l_live
                     ELSE l_live \cup {[ptr |-> r.ret, size |-> layout.size,
                                        align |-> layout.align]}
        /\ l_last' = [op |-> "alloc", ptr |-> Null, size |-> layout.size,
                      align |-> layout.align, new_size |-> 0, ret |-> r.ret]
  /\ UNCHANGED <<l_heap, fvars, hvars, kvars>>

\* dealloc(ptr, layout) of a live allocation, with the layout it was asked with
ListDealloc(a) ==
  /\ ~l_panicked
  /\ a \in l_live
  /\ LET r == list_dealloc(l_list, a.ptr, [size |-> a.size, align |-> a.align])
     IN /\ l_list' = r.list
        /\ l_panicked' = r.panicked
  /\ l_live' = l_live \ {a}
  /\ l_last' = [op |-> "dealloc", ptr |-> a.ptr, size |-> a.size, align |-> a.align,
                new_size |-> 0, ret |-> Null]
  /\ UNCHANGED <<l_heap, fvars, hvars, kvars>>

\* realloc(ptr, layout, new_size) of a live allocation
ListRealloc(a, new_size) ==
  /\ ~l_panicked
  /\ a \in l_live
  /\ LET r == list_realloc(l_list, a.ptr, [size |-> a.size, align |-> a.align], new_size)
     IN /\ l_list' = r.list
        /\ l_panicked' = r.panicked
        /\ l_live' = IF r.ret = Null THEN l_live
                     ELSE (l_live \ {a}) \cup {[ptr |-> r.ret, size |-> new_size,
                                                align |-> a.align]}
        /\ l_last' = [op |-> "realloc", ptr |-> a.ptr, size |-> a.size,
                      align |-> a.align, new_size |-> new_size, ret |-> r.ret]
  /\ UNCHANGED <<l_heap, fvars, hvars, kvars>>

ListNext ==
  \/ \E heap_start \in ListHeapStarts : ListHeapInit(heap_start, ListHeapSize)
  \/ \E layout \in ListLayouts : ListAlloc(layout)
  \/ \E a \in l_live : ListDealloc(a)
  \/ \E a \in l_live, new_size \in ListSizes : ListRealloc(a, new_size)

----------------------------------------------------------------------------
(***************************************************************************)
(* Locked<Allocator> under several contexts.  alloc (list.rs:103-118)      *)
(* takes the guard at self.lock() and holds it to the end of the function; *)
(* dealloc (list.rs:120-125) holds it for the one statement.  Each read    *)
(* and write of the free list is a step of its own.  Locked, of            *)
(* allocator/alloc.rs, is the spin mutex of the design document: lock()    *)
(* spins until the mutex is free and takes it, interrupts left as they     *)
(* are; the guard releases it when dropped.  Interrupts are enabled from   *)
(* kernel_main on (main.rs:69), and a handler may call the allocation      *)
(* hook (design document, interrupt safety).                               *)
(***************************************************************************)

\* No context: the mutex is free, no handler runs.
NoContext == 0
\* The threads, and the interrupt handler's context.
Threads == {1, 2}
Handler == 3
Contexts == Threads \cup {Handler}
\* Allocations a context holds at one time.
MaxLockedLive == 1

\* The layouts the contexts ask for.
LockedLayouts == {[size |-> 1, align |-> 1], [size |-> 24, align |-> 16]}
\* heap_start and heap_size of the one init.
LockedHeapStart == 8
LockedHeapSize == 64

\* An alloc that drops the guard once find_region has returned.
guard_after_find_dropped(t) == NoContext

\* let mut allocator = self.lock(): the guard is alive after find_region.
guard_after_find(t) == t

\* Mutex::lock can take the mutex: nobody holds it.
lock_free == k_lock = NoContext

\* The allocator masks interrupts while it holds the mutex: it does not,
\* alloc and dealloc call lock() and nothing else around it.
interrupts_masked(t) == FALSE

\* Context t is on the processor: no handler runs on top of it.
Running(t) == k_irq # t

no_found == [found |-> FALSE, region |-> [addr |-> 0, size |-> 0],
             alloc_start |-> Null, list |-> << >>]
no_arg == [ptr |-> Null, size |-> 0, align |-> 0]

\* A realloc that gives back the new block: self.dealloc(new_ptr, new_layout)
realloc_dealloc_new(old, moved) == moved

\* self.dealloc(ptr, layout), list.rs:133: the old pointer and layout.
realloc_dealloc_arg(old, moved) == old

\* Where an alloc returns to: its caller, or the realloc that called it
\* (old is its allocation), which goes on to the copy if !new_ptr.is_null()
\* and returns new_ptr otherwise, list.rs:129-136.
realloc_after_alloc(old, new_ptr) ==
  IF old # no_arg /\ new_ptr # Null THEN "realloc_copy" ELSE "idle"

\* The new sizes realloc is called with.
ReallocSizes == {1, 24, 72}

LockedInit ==
  /\ k_list = list_new
  /\ k_heap = {}
  /\ k_lock = NoContext
  /\ k_pc = [t \in Contexts |-> "idle"]
  /\ k_arg = [t \in Contexts |-> no_arg]
  /\ k_found = [t \in Contexts |-> no_found]
  /\ k_ret = [t \in Contexts |-> Null]
  /\ k_live = [t \in Contexts |-> {}]
  /\ k_irq = NoContext
  /\ k_seq = list_new
  /\ k_exp = [t \in Contexts |-> Null]
  /\ k_re = [t \in Contexts |-> no_arg]

\* ALLOCATOR.lock().init(heap_start, heap_size), once, before any call
LockedHeapInit ==
  /\ k_heap = {}
  /\ lock_free
  /\ \A t \in Contexts : k_pc[t] = "idle"
  /\ k_list' = init(k_list, LockedHeapStart, LockedHeapSize)
  /\ k_seq' = init(k_seq, LockedHeapStart, LockedHeapSize)
  /\ k_heap' = {[addr |-> LockedHeapStart, size |-> LockedHeapSize]}
  /\ UNCHANGED <<k_lock, k_pc, k_arg, k_found, k_ret, k_live, k_irq, k_exp,
                 k_re, fvars, hvars, lvars>>

\* alloc(layout) is called: size_align, then lock()
AllocCall(t, layout) ==
  /\ Running(t)
  /\ k_pc[t] = "idle"
  /\ Cardinality(k_live[t]) < MaxLockedLive
  /\ k_pc' = [k_pc EXCEPT ![t] = "alloc_lock"]
  /\ k_arg' = [k_arg EXCEPT ![t] = [ptr |-> Null, size |-> layout.size,
                                     align |-> layout.align]]
  /\ UNCHANGED <<k_list, k_heap, k_lock, k_found, k_ret, k_live, k_irq, k_seq,
                 k_exp, k_re, fvars, hvars, lvars>>

\* let mut allocator = self.lock(), list.rs:106
AllocLock(t) ==
  /\ Running(t)
  /\ k_pc[t] = "alloc_lock"
  /\ lock_free
  /\ k_lock' = t
  /\ k_pc' = [k_pc EXCEPT ![t] = "alloc_find"]
  /\ LET s == list_alloc(k_seq, [size |-> k_arg[t].size, align |-> k_arg[t].align])
     IN /\ k_seq' = s.list
        /\ k_exp' = [k_exp EXCEPT ![t] = s.ret]
  /\ UNCHANGED <<k_list, k_heap, k_arg, k_found, k_ret, k_live, k_irq,
                 k_re, fvars, hvars, lvars>>

\* allocator.find_region(size, align), list.rs:108
AllocFind(t) ==
  /\ Running(t)
  /\ k_pc[t] = "alloc_find"
  /\ LET sa == size_align([size |-> k_arg[t].size, align |-> k_arg[t].align])
         f == find_region(k_list, sa[1], sa[2])
     IN /\ k_list' = f.list
        /\ k_found' = [k_found EXCEPT ![t] = [f EXCEPT !.list = << >>]]
  /\ k_lock' = IF k_lock = t THEN guard_after_find(t) ELSE k_lock
  /\ k_pc' = [k_pc EXCEPT ![t] = "alloc_excess"]
  /\ UNCHANGED <<k_heap, k_arg, k_ret, k_live, k_irq, k_seq, k_exp,
                 k_re, fvars, hvars, lvars>>

\* if excess_size > 0 { allocator.add_free_region(alloc_end, excess_size) },
\* list.rs:109-113
AllocExcess(t) ==
  /\ Running(t)
  /\ k_pc[t] = "alloc_excess"
  /\ LET sa == size_align([size |-> k_arg[t].size, align |-> k_arg[t].align])
         alloc_end == k_found[t].alloc_start + sa[1]
         excess_size == end_address(k_found[t].region) - alloc_end
     IN k_list' = IF k_found[t].found /\ excess_size > 0
                    THEN add_free_region(k_list, alloc_end, excess_size)
                    ELSE k_list
  /\ k_pc' = [k_pc EXCEPT ![t] = "alloc_return"]
  /\ UNCHANGED <<k_heap, k_lock, k_arg, k_found, k_ret, k_live, k_irq, k_seq,
                 k_exp, k_re, fvars, hvars, lvars>>

\* alloc_start as *mut u8 or ptr::null_mut(); the guard is dropped,
\* list.rs:114-118.  An alloc called by realloc returns into realloc,
\* list.rs:129-130.
AllocReturn(t) ==
  /\ Running(t)
  /\ k_pc[t] = "alloc_return"
  /\ k_lock' = IF k_lock = t THEN NoContext ELSE k_lock
  /\ k_ret' = [k_ret EXCEPT ![t] = k_found[t].alloc_start]
  /\ k_live' = IF k_found[t].found
                 THEN [k_live EXCEPT ![t] = @ \cup {[k_arg[t] EXCEPT !.ptr =
                                                     k_found[t].alloc_start]}]
                 ELSE k_live
  /\ k_found' = [k_found EXCEPT ![t] = no_found]
  /\ k_arg' = [k_arg EXCEPT ![t] = no_arg]
  /\ k_pc' = [k_pc EXCEPT ![t] = realloc_after_alloc(k_re[t], k_found[t].alloc_start)]
  /\ k_re' = IF k_found[t].found THEN k_re ELSE [k_re EXCEPT ![t] = no_arg]
  /\ UNCHANGED <<k_list, k_heap, k_irq, k_seq, k_exp, fvars, hvars, lvars>>

\* dealloc(ptr, layout) of an allocation the context holds is called
DeallocCall(t, a) ==
  /\ Running(t)
  /\ k_pc[t] = "idle"
  /\ a \in k_live[t]
  /\ k_pc' = [k_pc EXCEPT ![t] = "dealloc_lock"]
  /\ k_arg' = [k_arg EXCEPT ![t] = a]
  /\ k_live' = [k_live EXCEPT ![t] = @ \ {a}]
  /\ UNCHANGED <<k_list, k_heap, k_lock, k_found, k_ret, k_irq, k_seq, k_exp,
                 k_re, fvars, hvars, lvars>>

\* self.lock(), list.rs:124
DeallocLock(t) ==
  /\ Running(t)
  /\ k_pc[t] = "dealloc_lock"
  /\ lock_free
  /\ k_lock' = t
  /\ k_pc' = [k_pc EXCEPT ![t] = "dealloc_push"]
  /\ k_seq' = list_dealloc(k_seq, k_arg[t].ptr,
                           [size |-> k_arg[t].size, align |-> k_arg[t].align]).list
  /\ UNCHANGED <<k_list, k_heap, k_arg, k_found, k_ret, k_live, k_irq, k_exp,
                 k_re, fvars, hvars, lvars>>

\* .add_free_region(ptr as usize, size); the guard is dropped, list.rs:124.
\* A dealloc called by realloc ends the realloc, list.rs:133-136.
DeallocPush(t) ==
  /\ Running(t)
  /\ k_pc[t] = "dealloc_push"
  /\ k_list' = add_free_region(k_list, k_arg[t].ptr,
                 size_align([size |-> k_arg[t].size, align |-> k_arg[t].align])[1])
  /\ k_lock' = IF k_lock = t THEN NoContext ELSE k_lock
  /\ k_arg' = [k_arg EXCEPT ![t] = no_arg]
  /\ k_pc' = [k_pc EXCEPT ![t] = "idle"]
  /\ k_re' = [k_re EXCEPT ![t] = no_arg]
  /\ UNCHANGED <<k_heap, k_found, k_ret, k_live, k_irq, k_seq, k_exp,
                 fvars, hvars, lvars>>

\* realloc(ptr, layout, new_size) of an allocation the context holds is
\* called: new_layout, then self.alloc(new_layout), list.rs:128-129
ReallocCall(t, a, new_size) ==
  /\ Running(t)
  /\ k_pc[t] = "idle"
  /\ a \in k_live[t]
  /\ k_re' = [k_re EXCEPT ![t] = a]
  /\ k_arg' = [k_arg EXCEPT ![t] = [ptr |-> Null, size |-> new_size,
                                     align |-> a.align]]
  /\ k_pc' = [k_pc EXCEPT ![t] = "alloc_lock"]
  /\ UNCHANGED <<k_list, k_heap, k_lock, k_found, k_ret, k_live, k_irq, k_seq,
                 k_exp, fvars, hvars, lvars>>

\* ptr::copy_nonoverlapping(ptr, new_ptr, ..), then self.dealloc(ptr, layout)
\* is called, list.rs:132-133: the caller's old block is given up, the new
\* one is the caller's.
ReallocCopy(t) ==
  /\ Running(t)
  /\ k_pc[t] = "realloc_copy"
  /\ LET moved == CHOOSE a \in k_live[t] : a.ptr = k_ret[t] /\ a # k_re[t]
     IN k_arg' = [k_arg EXCEPT ![t] = realloc_dealloc_arg(k_re[t], moved)]
  /\ k_live' = [k_live EXCEPT ![t] = @ \ {k_re[t]}]
  /\ k_pc' = [k_pc EXCEPT ![t] = "dealloc_lock"]
  /\ UNCHANGED <<k_list, k_heap, k_lock, k_found, k_ret, k_irq, k_seq, k_exp,
                 k_re, fvars, hvars, lvars>>

\* An interrupt arrives on the processor of thread t; its handler runs
\* before t goes on, and calls alloc(layout).
Interrupt(t, layout) ==
  /\ k_heap # {}
  /\ k_irq = NoContext
  /\ ~interrupts_masked(t)
  /\ k_pc[Handler] = "idle"
  /\ k_irq' = t
  /\ k_pc' = [k_pc EXCEPT ![Handler] = "alloc_lock"]
  /\ k_arg' = [k_arg EXCEPT ![Handler] = [ptr |-> Null, size |-> layout.size,
                                          align |-> layout.align]]
  /\ UNCHANGED <<k_list, k_heap, k_lock, k_found, k_ret, k_live, k_seq, k_exp,
                 k_re, fvars, hvars, lvars>>

\* The handler frees what it was given.
HandlerFree ==
  /\ k_irq # NoContext
  /\ \E a \in k_live[Handler] : DeallocCall(Handler, a)

\* The handler returns; the thread it interrupted goes on.
InterruptReturn ==
  /\ k_irq # NoContext
  /\ k_pc[Handler] = "idle"
  /\ k_live[Handler] = {}
  /\ k_irq' = NoContext
  /\ UNCHANGED <<k_list, k_heap, k_lock, k_pc, k_arg, k_found, k_ret, k_live,
                 k_seq, k_exp, k_re, fvars, hvars, lvars>>

\* The steps of context t inside a call.
Proceed(t) ==
  \/ AllocLock(t)
  \/ AllocFind(t)
  \/ AllocExcess(t)
  \/ AllocReturn(t)
  \/ DeallocLock(t)
  \/ DeallocPush(t)

\* Context t calls alloc or dealloc.
Call(t) ==
  \/ \E layout \in LockedLayouts : AllocCall(t, layout)
  \/ \E a \in k_live[t] : DeallocCall(t, a)

\* The threads call the allocator concurrently.
LockedNext ==
  \/ LockedHeapInit
  \/ \E t \in Threads : k_heap # {} /\ Call(t)
  \/ \E t \in Threads : Proceed(t)

\* The threads call alloc, dealloc and realloc concurrently.
ReallocNext ==
  \/ LockedHeapInit
  \/ \E t \in Threads : k_heap # {} /\ Call(t)
  \/ \E t \in Threads : Proceed(t)
  \/ \E t \in Threads : \E a \in k_live[t] : \E new_size \in ReallocSizes :
       ReallocCall(t, a, new_size)
  \/ \E t \in Threads : ReallocCopy(t)

\* One thread calls the allocator; interrupt handlers run on top of it, each
\* of them an alloc, the dealloc of what it got, and the return.
IrqNext ==
  \/ LockedHeapInit
  \/ k_heap # {} /\ Call(1)
  \/ Proceed(1)
  \/ \E layout \in LockedLayouts : Interrupt(1, layout)
  \/ HandlerFree
  \/ Proceed(Handler)
  \/ InterruptReturn

----------------------------------------------------------------------------
\* The frames of the block of order k at frame A.
Block(A, k) == A .. A + 2 ^ k - 1

\* The frames an allocation of count frames at frame holds.
LiveBlock(a) == Block(a.frame, trailing_zeros(next_power_of_two(a.count)))

Init ==
  /\ free_list = new.free_list
  /\ allocated = new.allocated
  /\ total = new.total
  /\ panicked = FALSE
  /\ live = {}
  /\ fed = {}
  /\ last = [op |-> "new", a |-> 0, b |-> 0, ret |-> None]
  /\ HeapInit
  /\ ListInit
  /\ LockedInit

Store(st) ==
  /\ free_list' = st.free_list
  /\ allocated' = st.allocated
  /\ total' = st.total

\* [start, end) shares no frame with a range fed earlier.
Disjoint(start, end) ==
  \A r \in fed : start >= end \/ end <= r[1] \/ r[2] <= start

\* frame.add_frame(start, end) with a range disjoint from the earlier ones
AddFrame(start, end) ==
  /\ ~panicked
  /\ start <= end
  /\ Disjoint(start, end)
  /\ LET r == add_frame(self, start, end)
     IN /\ Store(r.st)
        /\ panicked' = r.panicked
  /\ fed' = IF start < end THEN fed \cup {<<start, end>>} ELSE fed
  /\ last' = [op |-> "add_frame", a |-> start, b |-> end, ret |-> None]
  /\ UNCHANGED <<live, hvars, lvars, kvars>>

\* frame.insert(start..end), main.rs:207
Insert(start, end) ==
  /\ ~panicked
  /\ start <= end
  /\ Disjoint(start, end)
  /\ LET r == insert(self, start, end)
     IN /\ Store(r.st)
        /\ panicked' = r.panicked
  /\ fed' = IF start < end THEN fed \cup {<<start, end>>} ELSE fed
  /\ last' = [op |-> "add_frame", a |-> start, b |-> end, ret |-> None]
  /\ UNCHANGED <<live, hvars, lvars, kvars>>

\* frame.alloc(count)
Alloc(count) ==
  /\ ~panicked
  /\ LET r == alloc(self, count)
     IN /\ (r.ret # None => Cardinality(live) < MaxLive)
        /\ Store(r.st)
        /\ live' = IF r.ret = None THEN live
                   ELSE live \cup {[frame |-> r.ret, count |-> count]}
        /\ last' = [op |-> "alloc", a |-> count, b |-> 0, ret |-> r.ret]
  /\ UNCHANGED <<panicked, fed, hvars, lvars, kvars>>

\* frame.dealloc(frame, count) of a live allocation
Dealloc(a) ==
  /\ ~panicked
  /\ a \in live
  /\ LET r == dealloc(self, a.frame, a.count)
     IN /\ Store(r.st)
        /\ panicked' = r.panicked
  /\ live' = live \ {a}
  /\ last' = [op |-> "dealloc", a |-> a.frame, b |-> a.count, ret |-> None]
  /\ UNCHANGED <<fed, hvars, lvars, kvars>>

\* let addr = frame.alloc(count).unwrap(); frame.dealloc(addr, count);
\* (main.rs:226-227, 239-240), taken when the alloc succeeds.
AllocFree(count) ==
  /\ ~panicked
  /\ LET r == alloc(self, count)
     IN /\ r.ret # None
        /\ LET d == dealloc(r.st, r.ret, count)
           IN /\ Store(d.st)
              /\ panicked' = d.panicked
        /\ last' = [op |-> "alloc_free", a |-> count, b |-> 0, ret |-> r.ret]
  /\ UNCHANGED <<live, fed, hvars, lvars, kvars>>

\* frame.add_frame(start, end) with any start <= end not fed before.
Feed(start, end) ==
  /\ Cardinality(fed) < MaxFeeds
  /\ AddFrame(start, end)

FeedNext ==
  \/ \E r \in WideRanges : Feed(r[1], r[2])
  \/ \E count \in AllocCounts : Alloc(count)

\* The calls of Next with counts from 0 on.
ZeroNext ==
  \/ \E r \in FeedRanges : AddFrame(r[1], r[2])
  \/ \E count \in ZeroCounts : Alloc(count)
  \/ \E a \in live : Dealloc(a)
  \/ \E count \in ZeroCounts : AllocFree(count)

Next ==
  \/ \E r \in FeedRanges : AddFrame(r[1], r[2])
  \/ \E r \in InsertRanges : Insert(r[1], r[2])
  \/ \E count \in AllocCounts : Alloc(count)
  \/ \E a \in live : Dealloc(a)
  \/ \E count \in AllocCounts : AllocFree(count)

Spec == Init /\ [][Next]_vars

\* The frame allocator fed ranges of every alignment, and allocated from.
FeedSpec == Init /\ [][FeedNext]_vars

\* The frame allocator asked for zero frames among other counts.
ZeroSpec == Init /\ [][ZeroNext]_vars

\* The byte heap under the calls of its tests.
HeapSpec == Init /\ [][HeapNext]_vars

\* The linked-list allocator under alloc, dealloc and realloc calls.
ListSpec == Init /\ [][ListNext]_vars

\* Locked<Allocator> called by two threads.
LockedSpec == Init /\ [][LockedNext]_vars

\* Locked<Allocator> called by two threads, realloc among the calls.
ReallocSpec == Init /\ [][ReallocNext]_vars

\* Locked<Allocator> called by a thread and by interrupt handlers.  The
\* thread gets to run between interrupts, so it goes on if it can go on again
\* and again; a handler goes on whenever it can, and returns when it is done.
IrqSpec ==
  /\ Init /\ [][IrqNext]_vars
  /\ SF_vars(Proceed(1))
  /\ WF_vars(Proceed(Handler))
  /\ WF_vars(HandlerFree)
  /\ WF_vars(InterruptReturn)

----------------------------------------------------------------------------
\* What the claims speak of

\* The blocks on the free lists, as <<order, first frame>>.
FreeBlocks == UNION {{<<k, A>> : A \in free_list[k]} : k \in 0 .. ORDER - 1}

\* The frames on the free lists.
FreeFrames == UNION {Block(p[2], p[1]) : p \in FreeBlocks}

\* The frames fed in.
FedFrames == UNION {r[1] .. r[2] - 1 : r \in fed}

\* The frames of the live allocations.
LiveFrames == UNION {LiveBlock(a) : a \in live}

\* No two blocks (free or live) share a frame.
NoFrameTwice ==
  /\ \A p, q \in FreeBlocks : p # q => Block(p[2], p[1]) \cap Block(q[2], q[1]) = {}
  /\ \A a, b \in live : a # b => LiveBlock(a) \cap LiveBlock(b) = {}
  /\ FreeFrames \cap LiveFrames = {}

\* The block a dealloc of (frame, count) was merged into is on a list of an
\* order above its own size class.
Coalesced(frame, count) ==
  LET class == trailing_zeros(next_power_of_two(count))
  IN \E p \in FreeBlocks : p[1] > class /\ frame \in Block(p[2], p[1])

\* C1: the frames on the free lists together with the frames of the live
\* allocations are exactly the frames fed in, none of them twice.
C1_Conservation ==
  /\ FreeFrames \cup LiveFrames = FedFrames
  /\ NoFrameTwice

----------------------------------------------------------------------------
\* The size class of a request of count frames.
ClassOf(count) == trailing_zeros(next_power_of_two(count))

\* The step is a call of alloc that returned Some.
AllocSome == last'.op = "alloc" /\ last'.ret # None

\* C2: every successful alloc(count) returns a frame p that is a multiple of
\* next_power_of_two(count), whose block lies inside the fed ranges and
\* overlaps no allocation live at the call; no two live allocations start
\* at the same frame.
C2_AllocSafety ==
  [][AllocSome =>
       LET p == last'.ret
           size == next_power_of_two(last'.a)
           range == p .. p + size - 1
       IN /\ p % size = 0
          /\ range \subseteq FedFrames
          /\ \A a \in live : LiveBlock(a) \cap range = {} /\ a.frame # p]_vars

\* An alloc of a count that is no power of two succeeded beside another
\* live allocation.
C2_Witness ==
  /\ last.op = "alloc" /\ last.ret # None /\ last.a = 24
  /\ Cardinality(live) = 2

----------------------------------------------------------------------------
\* The step is a = alloc(count).unwrap(); dealloc(a, count).
AllocFreeStep == last'.op = "alloc_free"

\* The order of the list alloc(count) takes its block from, in the
\* unprimed state: the lowest order >= ClassOf(count) with a block.
TakenOrder(count) ==
  CHOOSE j \in ClassOf(count) .. ORDER - 1 :
    /\ free_list[j] # {}
    /\ \A k \in ClassOf(count) .. j - 1 : free_list[k] = {}

\* The buddy of frame A at order k: A XOR (1 << k).
BuddyOf(A, k) == IF (A \div 2 ^ k) % 2 = 1 THEN A - 2 ^ k ELSE A + 2 ^ k

\* C3, the round trip without condition: a successful alloc(count) followed at once by
\* dealloc(a, count) leaves every free list and both counters as they were.
C3_RoundTrip ==
  [][AllocFreeStep =>
       /\ free_list' = free_list
       /\ allocated' = allocated
       /\ total' = total]_vars

\* C3, the round trip with its condition: the pair leaves both counters as they were, and leaves the
\* free lists as they were exactly when the buddy of the block alloc took,
\* at the order of the list it was taken from, is not on that list.
C3_RoundTripAmended ==
  [][AllocFreeStep =>
       LET j == TakenOrder(last'.a)
       IN /\ (free_list' = free_list) <=> (BuddyOf(last'.ret, j) \notin free_list[j])
          /\ allocated' = allocated
          /\ total' = total]_vars

\* The pair ran on a block that alloc had to split and dealloc merged back.
C3_Witness ==
  /\ last.op = "alloc_free" /\ last.a = 1
  /\ Coalesced(last.ret, last.a)
  /\ live # {}

----------------------------------------------------------------------------
\* The step is a call of alloc.
AllocStep == last'.op = "alloc"

\* C4: alloc(count) returns None exactly when every free list of order
\* k0 .. ORDER-1 is empty (k0 = log2(next_power_of_two(count)); also when
\* k0 >= ORDER), whatever the number of free frames.
C4_OutOfMemory ==
  [][AllocStep =>
       LET k0 == ClassOf(last'.a)
       IN (last'.ret = None) <=> (\A k \in k0 .. ORDER - 1 : free_list[k] = {})]_vars

\* An alloc failed although at least count frames are free.
C4_Witness ==
  /\ last.op = "alloc" /\ last.ret = None
  /\ Cardinality(FreeFrames) >= last.a

----------------------------------------------------------------------------
\* The free blocks whose buddy of the same order is free too.
BuddyPairs == {p \in FreeBlocks : <<p[1], BuddyOf(p[2], p[1])>> \in FreeBlocks}

\* C5 as stated: no order k and frame A with A and A XOR (1 << k) both on
\* free list k.
C5_BuddyInvariant == BuddyPairs = {}

\* C5 as amended: alloc and dealloc create no pair of free buddies; every
\* pair on a list after the call was on it before.
C5_NoNewBuddyPairs ==
  [][last'.op \in {"alloc", "dealloc", "alloc_free"} =>
       BuddyPairs' \subseteq BuddyPairs]_vars

\* A dealloc merged its block with a free buddy while the lists hold a pair
\* that add_frame left.
C5_Witness ==
  /\ last.op = "dealloc" /\ Coalesced(last.a, last.b)
  /\ BuddyPairs # {}

----------------------------------------------------------------------------
\* C6: every frame on free list k is a multiple of 1 << k.
C6_Alignment == \A p \in FreeBlocks : p[2] % (2 ^ p[1]) = 0

\* After feeds, a split and a merge, a list of order >= 1 holds a block
\* that does not start at frame 0.
C6_Witness ==
  /\ last.op = "dealloc" /\ Coalesced(last.a, last.b)
  /\ \E p \in FreeBlocks : p[1] >= 1 /\ p[2] > 0
  /\ live # {}

----------------------------------------------------------------------------
RECURSIVE SumSizes(_)
\* The sum of next_power_of_two(count) over a set of allocations.
SumSizes(S) ==
  IF S = {} THEN 0
  ELSE LET a == CHOOSE x \in S : TRUE
       IN next_power_of_two(a.count) + SumSizes(S \ {a})

\* C7: allocated is the sum of next_power_of_two(count) over the live
\* allocations, total is the number of frames fed, allocated <= total, and
\* the subtraction in dealloc does not underflow.
C7_Counters ==
  /\ allocated = SumSizes(live)
  /\ total = Cardinality(FedFrames)
  /\ allocated <= total
  /\ \A a \in live : next_power_of_two(a.count) <= allocated
  /\ ~panicked

\* A dealloc has run and another allocation, of a count that is no power of
\* two, is still live.
C7_Witness ==
  /\ last.op = "dealloc"
  /\ \E a \in live : a.count = 24
  /\ allocated = 32

----------------------------------------------------------------------------
\* The free lists after new(); insert(0..3).
AfterInsert03 == [k \in 0 .. ORDER - 1 |-> IF k = 0 THEN {2} ELSE IF k = 1 THEN {0} ELSE {}]

\* C8: a successful alloc(count) takes the lowest block B of the lowest
\* non-empty order j >= k0 and returns B; every order in k0 .. j-1 gains
\* exactly B + 2^order, list j loses B, the other lists are unchanged.  So
\* after new(); insert(0..3): alloc(1) = Some(2), alloc(2) = Some(0), and
\* then alloc(1) and alloc(2) fail.
C8_OrderAndTieBreak ==
  [][AllocStep =>
       LET k0 == ClassOf(last'.a)
           B == last'.ret
       IN /\ B # None =>
               \E j \in k0 .. ORDER - 1 :
                 /\ \A k \in k0 .. j - 1 : free_list[k] = {}
                 /\ B \in free_list[j]
                 /\ \A y \in free_list[j] : B <= y
                 /\ \A k \in 0 .. ORDER - 1 :
                      free_list'[k] =
                        IF k = j THEN free_list[k] \ {B}
                        ELSE IF k0 <= k /\ k < j THEN free_list[k] \cup {B + 2 ^ k}
                        ELSE free_list[k]
          /\ (free_list = AfterInsert03 /\ last'.a = 1) => B = 2
          /\ (free_list = [AfterInsert03 EXCEPT ![0] = {}] /\ last'.a = 2) => B = 0
          /\ (free_list = new.free_list /\ last'.a \in {1, 2}) => B = None]_vars

\* The run new(); insert(0..3); alloc(1); alloc(2) has been made.
C8_ScenarioReached ==
  /\ last = [op |-> "alloc", a |-> 2, b |-> 0, ret |-> 0]
  /\ live = {[frame |-> 2, count |-> 1], [frame |-> 0, count |-> 2]}
  /\ fed = {<<0, 3>>}
  /\ free_list = new.free_list

\* An alloc split a block although a list of its order held two blocks.
C8_Witness ==
  /\ last.op = "alloc" /\ last.a = 1 /\ last.ret = 0
  /\ free_list[5] = {32}
  /\ \A k \in 0 .. 4 : free_list[k] = {2 ^ k}

----------------------------------------------------------------------------
\* The ranges the callers may feed next: disjoint from the frames fed.
FreshRanges ==
  {r \in FeedRanges : Disjoint(r[1], r[2])}

\* add_frame(A); add_frame(B) on the current allocator.
AddBoth(A, B) ==
  LET one == add_frame(self, A[1], A[2])
      two == add_frame(one.st, B[1], B[2])
  IN [free_list |-> two.st.free_list, total |-> two.st.total,
      panicked |-> one.panicked \/ two.panicked]

\* C9: for disjoint ranges A and B, add_frame(A); add_frame(B) gives the
\* same free lists and the same total as add_frame(B); add_frame(A).
C9_FeedOrder ==
  \A A, B \in FreshRanges :
    (A[1] >= A[2] \/ B[1] >= B[2] \/ A[2] <= B[1] \/ B[2] <= A[1]) =>
      AddBoth(A, B) = AddBoth(B, A)

\* Two non-empty ranges have been fed, and feeding them in the other order
\* from new() gives the lists now held.
C9_Witness ==
  /\ last = [op |-> "add_frame", a |-> 0, b |-> 3, ret |-> None]
  /\ free_list[0] = {2, 3}
  /\ free_list = add_frame(add_frame(new, 0, 3).st, 3, 2 * ZeroLowBit).st.free_list
  /\ total = 2 * ZeroLowBit

----------------------------------------------------------------------------
\* The size of the largest free block of the heap, 0 with none.
LargestFree ==
  LET sizes == {2 ^ k : k \in {i \in 0 .. HeapOrder - 1 : h_free_list[i] # << >>}}
  IN IF sizes = {} THEN 0 ELSE CHOOSE s \in sizes : \A x \in sizes : s >= x

\* The bytes of the heap that are on no allocation.
HeapFreeBytes == h_total - h_allocated

\* C10: on a heap fed one region of 100 words at a word-aligned address,
\* alloc(size = 100 * wordsize, align = 1) fails and alloc(size = 1,
\* align = 1) succeeds while a block is free; every request fails when
\* max(size.next_power_of_two(), align, sizeof(pointer)) exceeds the size of
\* the largest free block, whatever the number of free bytes.
C10_HeapOom ==
  [][h_last'.op = "alloc" =>
       /\ (h_last'.size = SpaceWords * WordSize /\ h_last'.align = 1
             => h_last'.ret = None)
       /\ (h_last'.size = 1 /\ h_last'.align = 1 /\ LargestFree > 0
             => h_last'.ret # None)
       /\ (Max2(next_power_of_two(h_last'.size), Max2(h_last'.align, WordSize))
              > LargestFree
             => h_last'.ret = None)]_vars

\* The 100-word request has failed on the freshly fed region, with as many
\* free bytes as it asks for.
C10_Witness ==
  /\ h_last = [op |-> "alloc", size |-> SpaceWords * WordSize, align |-> 1,
               ret |-> None]
  /\ h_total = SpaceWords * WordSize
  /\ h_allocated = 0
  /\ HeapFreeBytes >= h_last.size
  /\ LargestFree > 0

\* The one-byte request has succeeded on the fed region.
C10_SmallReached ==
  /\ h_last.op = "alloc" /\ h_last.size = 1 /\ h_last.align = 1
  /\ h_last.ret # None
  /\ h_total = SpaceWords * WordSize
  /\ h_allocated = WordSize

----------------------------------------------------------------------------
\* C11: on the empty heap alloc({1, 1}) fails; once the 100-word region is
\* fed, every iteration p = alloc({1, 1}); dealloc(p, {1, 1}) succeeds and
\* leaves the counters user, allocated and total as they were before it, so
\* they are after any number of iterations what they were before the loop.
C11_HeapAllocFreeLoop ==
  [][/\ (h_last'.op \in {"alloc", "alloc_free"} /\ h_total = 0
          => h_last'.ret = None)
     /\ (h_last'.op = "alloc_free" /\ h_last'.size = 1 /\ h_last'.align = 1
           /\ h_total = SpaceWords * WordSize /\ h_live = {}
          => /\ h_last'.ret # None
             /\ h_user' = h_user
             /\ h_allocated' = h_allocated
             /\ h_total' = h_total)]_vars

\* An iteration of the loop has run on the fed region, nothing else held.
C11_Witness ==
  /\ h_last.op = "alloc_free" /\ h_last.size = 1 /\ h_last.align = 1
  /\ h_last.ret # None
  /\ h_total = SpaceWords * WordSize
  /\ h_live = {} /\ h_user = 0 /\ h_allocated = 0

----------------------------------------------------------------------------
\* The alignment a layout is served with: max(layout.align, align_of(Node)).
AdjustedAlign(align) == IF align >= NodeAlign THEN align ELSE NodeAlign

\* The size a layout is served with: the size padded to that alignment and
\* raised to sizeof(Node).
AdjustedSize(size, align) ==
  LET al == AdjustedAlign(align)
      padded == IF size % al = 0 THEN size ELSE size + (al - (size % al))
  IN IF padded < NodeSize THEN NodeSize ELSE padded

\* The bytes lo .. hi-1.
Bytes(lo, hi) == {b \in lo .. hi - 1 : TRUE}

\* The bytes of the nodes of a chain.
ListBytes(list) == UNION {Bytes(list[i].addr, list[i].addr + list[i].size) : i \in 1 .. Len(list)}

\* The bytes of an allocation's adjusted range.
LiveBytes(a) == Bytes(a.ptr, a.ptr + AdjustedSize(a.size, a.align))

\* C12: every successful alloc(layout) returns p, a multiple of
\* max(layout.align, align_of(Node)), whose adjusted range [p, p + adjusted
\* size) lies inside one node that was on the free list at the call, meets
\* no other live allocation and no node that is on the free list afterwards.
C12_ListAllocSafety ==
  [][l_last'.op = "alloc" /\ l_last'.ret # Null =>
       LET ptr == l_last'.ret
           range == Bytes(ptr, ptr + AdjustedSize(l_last'.size, l_last'.align))
       IN /\ ptr % AdjustedAlign(l_last'.align) = 0
          /\ \E i \in 1 .. Len(l_list) :
               range \subseteq Bytes(l_list[i].addr, l_list[i].addr + l_list[i].size)
          /\ \A a \in l_live : range \cap LiveBytes(a) = {}
          /\ range \cap ListBytes(l_list') = {}]_vars

\* An alloc with alignment 16 has succeeded above the start of its node,
\* another allocation held and a node left on the list.
C12_Witness ==
  /\ l_last.op = "alloc" /\ l_last.ret # Null /\ l_last.align = 16
  /\ \E h \in l_heap : l_last.ret > h.addr
  /\ Cardinality(l_live) = 2
  /\ l_list # << >>

----------------------------------------------------------------------------
\* The bytes init was given.
HeapBytes == UNION {Bytes(h.addr, h.addr + h.size) : h \in l_heap}

\* C13: every byte given to init is inside a node of the free list or inside
\* the adjusted range of a live allocation.
C13_ListConservation ==
  ~l_panicked =>
    HeapBytes = ListBytes(l_list) \cup UNION {LiveBytes(a) : a \in l_live}

----------------------------------------------------------------------------
\* C14: realloc(ptr, old_layout, new_size) that finds no block for new_size
\* with the old alignment returns null and leaves the free list as it was,
\* the old block still allocated; otherwise the block returned is not the
\* old one and does not meet it, and the old block {ptr, adjusted size of
\* old_layout} is then the first node of the free list.
C14_Realloc ==
  [][l_last'.op = "realloc" =>
       LET old == [ptr |-> l_last'.ptr, size |-> l_last'.size, align |-> l_last'.align]
           moved == [ptr |-> l_last'.ret, size |-> l_last'.new_size, align |-> l_last'.align]
           tried == fitting(l_list, AdjustedSize(moved.size, moved.align),
                            AdjustedAlign(moved.align))
       IN /\ (l_last'.ret = Null) <=> (tried = {})
          /\ l_last'.ret = Null => /\ l_list' = l_list
                                   /\ old \in l_live'
          /\ l_last'.ret # Null =>
               /\ moved.ptr # old.ptr
               /\ LiveBytes(moved) \cap LiveBytes(old) = {}
               /\ moved \in l_live' /\ (moved # old => old \notin l_live')
               /\ l_list' # << >>
               /\ Head(l_list') = [addr |-> old.ptr,
                                   size |-> AdjustedSize(old.size, old.align)]]_vars

\* A realloc has moved a block.
C14_Witness ==
  /\ l_last.op = "realloc" /\ l_last.ret # Null
  /\ l_last.new_size > l_last.size
  /\ Len(l_list) >= 2

\* A realloc has failed, the block it was asked to move still held.
C14_FailureReached ==
  /\ l_last.op = "realloc" /\ l_last.ret = Null
  /\ \E a \in l_live : a.ptr = l_last.ptr
  /\ l_list # << >>

----------------------------------------------------------------------------
\* The lowest multiple of align that is not below addr.
AlignedFrom(addr, align) == CHOOSE s \in addr .. addr + align - 1 : s % align = 0

\* Node i of the chain can serve size bytes at alignment align: from the
\* aligned start the size ends inside the node, and what is left behind it
\* is nothing or enough for a node.
Serves(list, i, size, align) ==
  LET alloc_start == AlignedFrom(list[i].addr, align)
      node_end == list[i].addr + list[i].size
  IN /\ alloc_start + size <= node_end
     /\ (node_end - (alloc_start + size) = 0
          \/ node_end - (alloc_start + size) >= NodeSize)

\* C19: alloc takes the first node from the head that can serve the adjusted
\* size at the adjusted alignment, returns its aligned start and unlinks it,
\* the rest of the chain in its order behind the remainder if there is one;
\* it returns null only when no node can, and then the free list is as it was.
C19_FirstFit ==
  [][l_last'.op = "alloc" /\ ~l_panicked' =>
       LET size == AdjustedSize(l_last'.size, l_last'.align)
           align == AdjustedAlign(l_last'.align)
           able == {i \in 1 .. Len(l_list) : Serves(l_list, i, size, align)}
       IN /\ (l_last'.ret = Null) <=> (able = {})
          /\ l_last'.ret = Null => l_list' = l_list
          /\ l_last'.ret # Null =>
               \E i \in able :
                 /\ \A j \in able : i <= j
                 /\ l_last'.ret = AlignedFrom(l_list[i].addr, align)
                 /\ LET rest == SubSeq(l_list, 1, i - 1) \o SubSeq(l_list, i + 1, Len(l_list))
                        alloc_end == l_last'.ret + size
                        node_end == l_list[i].addr + l_list[i].size
                    IN l_list' = IF node_end > alloc_end
                                   THEN <<[addr |-> alloc_end, size |-> node_end - alloc_end]>> \o rest
                                   ELSE rest]_vars

\* An alloc has succeeded with a node too small for it left on the free list.
C19_Witness ==
  /\ l_last.op = "alloc" /\ l_last.ret # Null
  /\ \E i \in 1 .. Len(l_list) :
       l_list[i].addr < l_last.ret /\ l_list[i].size < AdjustedSize(l_last.size, l_last.align)

\* An alloc has returned null with nodes on the free list.
C19_NullReached ==
  /\ l_last.op = "alloc" /\ l_last.ret = Null
  /\ Len(l_list) >= 2

----------------------------------------------------------------------------
\* C20: dealloc(ptr, layout) makes {ptr, adjusted size of layout} the first
\* node of the free list in front of the nodes that were listed, these
\* unchanged and in their order, none merged; an alloc of the same layout
\* then returns ptr.
C20_DeallocPush ==
  [][l_last'.op = "dealloc" =>
       LET layout == [size |-> l_last'.size, align |-> l_last'.align]
       IN /\ l_list' = <<[addr |-> l_last'.ptr,
                          size |-> AdjustedSize(layout.size, layout.align)]>> \o l_list
          /\ Len(l_list') = Len(l_list) + 1
          /\ list_alloc(l_list', layout).ret = l_last'.ptr]_vars

\* A dealloc has pushed a block in front of the node that follows it in
\* memory.
C20_Witness ==
  /\ l_last.op = "dealloc"
  /\ Len(l_list) >= 2
  /\ \E i \in 2 .. Len(l_list) : l_list[i].addr = l_list[1].addr + l_list[1].size

----------------------------------------------------------------------------
\* The order the rule gives the block at s: the largest k < ORDER with s a
\* multiple of 1 << k and 1 << k <= end - s.
RuleOrder(s, end) ==
  LET ks == {k \in 0 .. ORDER - 1 : s % (2 ^ k) = 0 /\ 2 ^ k <= end - s}
  IN CHOOSE k \in ks : \A i \in ks : i <= k

RECURSIVE RuleBlocks(_, _)
\* The blocks <<order, first frame>> the rule cuts [s, end) into.
RuleBlocks(s, end) ==
  IF ~(s < end) THEN {}
  ELSE {<<RuleOrder(s, end), s>>} \cup RuleBlocks(s + 2 ^ RuleOrder(s, end), end)

\* The blocks a step has put on the free lists.
Inserted == FreeBlocks' \ FreeBlocks

\* C17: add_frame(start, end) returns without indexing a free list at or
\* beyond ORDER, and the blocks it inserts are those of the rule: at each
\* position s the largest order k < ORDER with s a multiple of 1 << k and
\* 1 << k <= end - s.
C17_DecompositionRule ==
  [][last'.op = "add_frame" =>
       /\ ~panicked'
       /\ Inserted = RuleBlocks(last'.a, last'.b)]_vars

\* C18: add_frame(start, end) returns, the blocks it inserts are pairwise
\* disjoint and cover exactly [start, end), total grows by end - start,
\* allocated is as it was, and with start = end nothing changes.
C18_ExactTiling ==
  [][last'.op = "add_frame" =>
       /\ ~panicked'
       /\ \A p, q \in Inserted : p # q => Block(p[2], p[1]) \cap Block(q[2], q[1]) = {}
       /\ UNION {Block(p[2], p[1]) : p \in Inserted} = last'.a .. last'.b - 1
       /\ total' = total + (last'.b - last'.a)
       /\ allocated' = allocated
       /\ (last'.a = last'.b => free_list' = free_list)]_vars

----------------------------------------------------------------------------
\* The allocations the contexts hold.
LockedLive == UNION {k_live[t] : t \in Contexts}

\* C15: a context reads and writes the free list only while it holds the
\* mutex, from one lock() to the drop of that guard; so whenever the mutex
\* is free the free list is the one the calls give run one at a time in the
\* order of their lock(), every alloc has returned what it returns in that
\* order, and no two allocations held overlap.
C15_Linearizable ==
  /\ \A t \in Contexts :
       k_pc[t] \in {"alloc_find", "alloc_excess", "alloc_return", "dealloc_push"}
         => k_lock = t
  /\ lock_free => k_list = k_seq
  /\ \A t \in Contexts : k_pc[t] = "idle" => k_ret[t] = k_exp[t]
  /\ \A a, b \in LockedLive : a # b => LiveBytes(a) \cap LiveBytes(b) = {}

\* Both threads have been served, with different blocks; thread 2 is inside
\* alloc with the mutex and thread 1, at lock() of its alloc, waits for it.
C15_Witness ==
  /\ k_pc[1] = "alloc_lock" /\ k_lock = 2 /\ k_pc[2] = "alloc_excess"
  /\ k_ret[1] # Null /\ k_ret[2] # Null /\ k_ret[1] # k_ret[2]

----------------------------------------------------------------------------
----------------------------------------------------------------------------
\* The node invariants of a chain: every node at an address aligned to
\* align_of(Node), of size >= sizeof(Node).
NodesValid(list) ==
  \A i \in 1 .. Len(list) :
    list[i].addr % NodeAlign = 0 /\ list[i].size >= NodeSize

\* C21: once init was given a region with an aligned start and room for a
\* node, no assertion of add_free_region fails, neither for the remainder
\* alloc pushes nor for the block dealloc pushes, and every node of the free
\* list is aligned to align_of(Node) and has size >= sizeof(Node).
C21_NodeInvariants ==
  l_heap # {} => ~l_panicked /\ NodesValid(l_list)

\* A dealloc has pushed a block onto a list that holds the remainder of an
\* alloc; one node has exactly sizeof(Node) bytes, one starts at an address
\* that is a multiple of align_of(Node) only.
C21_Witness ==
  /\ l_last.op = "dealloc"
  /\ Len(l_list) >= 2
  /\ \E i \in 1 .. Len(l_list) : l_list[i].size = NodeSize
  /\ \E i \in 1 .. Len(l_list) : l_list[i].addr % (2 * NodeAlign) # 0

----------------------------------------------------------------------------
\* C22: alloc(0) does what alloc(1) does on the same allocator: the same
\* result, lists and counters, one frame taken and allocated raised by 1
\* when it succeeds, nothing changed when it does not; dealloc(p, 0) does
\* what dealloc(p, 1) does, allocated lowered by 1; and the pair leaves what
\* the pair with count 1 leaves.
C22_ZeroCount ==
  [][/\ (last'.op = "alloc" /\ last'.a = 0 =>
          LET one == alloc(self, 1)
          IN /\ last'.ret = one.ret
             /\ free_list' = one.st.free_list
             /\ allocated' = one.st.allocated
             /\ total' = total
             /\ (last'.ret = None => free_list' = free_list /\ allocated' = allocated)
             /\ (last'.ret # None =>
                   /\ allocated' = allocated + 1
                   /\ FreeFrames' = FreeFrames \ {last'.ret}))
     /\ (last'.op = "dealloc" /\ last'.b = 0 =>
          LET one == dealloc(self, last'.a, 1)
          IN /\ ~panicked'
             /\ free_list' = one.st.free_list
             /\ allocated' = allocated - 1
             /\ total' = total)
     /\ (last'.op = "alloc_free" /\ last'.a = 0 =>
          LET one == alloc(self, 1)
              back == dealloc(one.st, one.ret, 1)
          IN /\ last'.ret = one.ret
             /\ ~panicked'
             /\ free_list' = back.st.free_list
             /\ allocated' = allocated
             /\ total' = total)]_vars

\* dealloc(p, 0) has given back the frame of an alloc(0), another
\* allocation of count 0 still held.
C22_Witness ==
  /\ last.op = "dealloc" /\ last.b = 0
  /\ \E a \in live : a.count = 0
  /\ allocated = 1

----------------------------------------------------------------------------
\* The step is a call of alloc that returned None.
AllocNone == last'.op \in {"alloc", "alloc_free"} /\ last'.ret = None

\* C23: an alloc that returns None leaves every free list, allocated and
\* total as they were; and in no reachable state does alloc, for any count,
\* leave by the None of the split loop or by the None of the empty target
\* list: it returns None only after a scan that found every list empty.
C23_FailedAllocNoEffect ==
  /\ [](\A count \in AllocCounts :
          alloc_branch(self, count) \in {"scan_none", "some"})
  /\ [][AllocNone =>
          /\ free_list' = free_list
          /\ allocated' = allocated
          /\ total' = total
          /\ alloc_branch(self, last'.a) = "scan_none"]_vars

\* An alloc of two frames failed with blocks on the list of order 0 and
\* allocations held, after allocs that split a larger block.
C23_Witness ==
  /\ last.op = "alloc" /\ last.ret = None /\ last.a = 2
  /\ free_list[0] # {}
  /\ live # {} /\ allocated > 0

----------------------------------------------------------------------------
\* The contexts inside a realloc, from its call to the end of its dealloc.
Reallocating == {t \in Contexts : k_re[t] # no_arg}

\* The block find_region has taken for context t, alloc not yet returned.
Taken(t) ==
  IF k_found[t].found
    THEN {[ptr |-> k_found[t].alloc_start, size |-> k_arg[t].size,
           align |-> k_arg[t].align]}
    ELSE {}

\* The blocks of context t outside the allocator: held by it, taken by its
\* alloc in progress, or the old block of its realloc in progress.
Outside(t) ==
  k_live[t] \cup Taken(t) \cup (IF t \in Reallocating THEN {k_re[t]} ELSE {})

\* C24: realloc runs its alloc and its dealloc in two critical sections,
\* the mutex not held in between; while a realloc is in progress its old
\* block is on no node of the free list, up to the push of its own dealloc;
\* the blocks held by callers, taken by allocs in progress and being moved
\* by reallocs never overlap each other or a node of the free list; and
\* whenever the mutex is free every node of the free list is aligned to
\* align_of(Node) and at least sizeof(Node) long.
C24_LockedRealloc ==
  /\ \A t \in Reallocating :
       /\ k_pc[t] \in {"alloc_lock", "alloc_find", "alloc_excess", "alloc_return",
                       "realloc_copy", "dealloc_lock", "dealloc_push"}
       /\ (k_pc[t] \in {"alloc_lock", "realloc_copy", "dealloc_lock"} => k_lock # t)
       /\ (k_pc[t] \in {"alloc_find", "alloc_excess", "alloc_return",
                         "dealloc_push"} => k_lock = t)
       /\ LiveBytes(k_re[t]) \cap ListBytes(k_list) = {}
  /\ \A t, u \in Contexts : \A a \in Outside(t) : \A b \in Outside(u) :
       (t # u \/ a # b) => LiveBytes(a) \cap LiveBytes(b) = {}
  /\ \A t \in Contexts : \A a \in Outside(t) :
       LiveBytes(a) \cap ListBytes(k_list) = {}
  /\ lock_free => NodesValid(k_list)

\* Thread 1 is between the two critical sections of its realloc, its new
\* block in hand, while thread 2 holds the mutex inside the alloc of its own
\* realloc, find_region having served it.
C24_Witness ==
  /\ k_pc[1] = "realloc_copy" /\ k_re[1] # no_arg
  /\ k_lock = 2 /\ k_pc[2] = "alloc_excess" /\ k_re[2] # no_arg
  /\ k_found[2].found

====
